---- MODULE Spec2Model ----
(***************************************************************************)
(* Model of azcam.image.Image (src/azcam/image.py): the focal-plane        *)
(* assembly engine (assemble), the calibration setter (set_scaling), the   *)
(* FITS reader (read_file / _read_fits_file) and the write path            *)
(* (write_file and the _write_* methods).                                  *)
(*                                                                         *)
(* Arrays are 1-based sequences; every index and slice of the Python code  *)
(* is computed 0-based, as the code computes it, and shifted by one only   *)
(* where a sequence is read or written.  Pixel values and calibration      *)
(* values are integers (floating-point rounding is not modelled).          *)
(***************************************************************************)
EXTENDS Integers, Sequences, FiniteSets, TLC

VARIABLES
    is_valid,       \* self.is_valid
    filetype,       \* self.filetype
    size_x,         \* self.size_x
    size_y,         \* self.size_y
    buffer,         \* self.buffer: [shape |-> <<dims>>, flat |-> row-major values]
    from_file,      \* self.from_file
    scales,         \* self.scales
    offsets,        \* self.offsets
    data,           \* self.data: one flat pixel sequence per amplifier
    assembled,      \* self.assembled
    trimmed,        \* self.trimmed
    self_trim,      \* self.trim: the stored trim preference
    asmsize,        \* self.asmsize = <<cols, rows>>
    focalplane,     \* self.focalplane (the fields image.py reads and writes)
    disk,           \* the files on disk: path -> what the file holds ("none": no file)
    origin,         \* history: for each buffer cell, the raw pixel the last assembly copied there
    last            \* history: the last call and how it ended

vars == <<is_valid, filetype, size_x, size_y, buffer, from_file, scales, offsets,
          data, assembled, trimmed, self_trim, asmsize, focalplane, disk, origin, last>>

----------------------------------------------------------------------------
(* Bounds of the model *)

\* prescan/overscan widths of the files read are 0 or MaxMargin
MaxMargin == 1
\* raw amplifier block of the files read: RawCols x RawRows pixels
RawCols == 3
RawRows == 3
\* gains passed to set_scaling are 1..MaxGain
MaxGain == 2
\* offsets passed to set_scaling start at MaxOffset
MaxOffset == 10

\* values an uninitialised (numpy.empty) cell may hold
Garbage == {-1, -2}

Min(a, b) == IF a < b THEN a ELSE b
Max(a, b) == IF a > b THEN a ELSE b

----------------------------------------------------------------------------
(* Python / numpy indexing *)

\* a[i] on a sequence of length n: valid for -n <= i < n
PyIndexOk(n, i) == i >= -n /\ i < n
\* the 0-based position a[i] reads
PyIndex(n, i) == IF i < 0 THEN n + i ELSE i

\* a[s:e] on a sequence of length n: 0-based first position and length
PyBound(n, i) == IF i < 0 THEN Max(n + i, 0) ELSE Min(i, n)
PySlice(n, s, e) ==
    LET a == PyBound(n, s)
        b == PyBound(n, e)
    IN  [lo |-> a, n |-> IF b > a THEN b - a ELSE 0]

\* numpy.resize(a, n) of the flattened array: the values repeated cyclically,
\* zeros when the array is empty
NpResize(flat, n) ==
    IF Len(flat) = 0 THEN [i \in 1..n |-> 0]
    ELSE [i \in 1..n |-> flat[((i - 1) % Len(flat)) + 1]]

\* ndarray.size
NpSize(arr) == Len(arr.flat)

\* numpy.empty(shape=[rows, cols]): every cell holds the same leftover value g
NpEmpty(rows, cols, g) ==
    [shape |-> <<rows, cols>>, flat |-> [i \in 1..(rows * cols) |-> g]]

NoOrigin == [amp |-> 0, idx |-> 0, n |-> 0]
BlankOrigin(n) == [i \in 1..n |-> NoOrigin]

----------------------------------------------------------------------------
(* FITS files handed to read_file.  A file is what _read_fits_file reads   *)
(* from it: the number of IMAGE extensions (0 for a single-image file),    *)
(* the ITL focal-plane keywords, the margins and the pixel blocks.  Every  *)
(* file carries ITL-HEAD = OK and all the keywords the reader looks for.   *)

\* raw pixel i (0-based) of amplifier a (0-based): distinct over the file
Pixel(a, i) == 100 * (a + 1) + 10 + i

\* amplifier grids with their AMP-CFG (flip codes) and JPG-EXT (readout order)
Single(c) == [nx |-> 1, ny |-> 1, cfg |-> <<c>>, jpg |-> <<1>>]
Pair      == [nx |-> 2, ny |-> 1, cfg |-> <<0, 1>>, jpg |-> <<1, 2>>]
\* a JPG-EXT entry that names no extension of the file
PairBad   == [nx |-> 2, ny |-> 1, cfg |-> <<0, 1>>, jpg |-> <<1, 3>>]
Quad      == [nx |-> 2, ny |-> 2, cfg |-> <<0, 1, 2, 3>>, jpg |-> <<3, 4, 1, 2>>]

\* flip codes of the single-amplifier files: the four the code knows and one it does not
FlipCodes == {0, 1, 2, 3, 4}

Margin(uc, oc, ur, or) == [uc |-> uc, oc |-> oc, ur |-> ur, or |-> or]
NoMargin == Margin(0, 0, 0, 0)

\* the (layout, margins) pairs of the files read; m is the margin width
Cases ==
    LET m == MaxMargin
    IN  { <<Single(c), Margin(m, m, m, m)>> : c \in FlipCodes }
        \cup { <<Single(0), NoMargin>>,
               <<Pair, Margin(m, 0, 0, 0)>>,
               <<PairBad, NoMargin>>,
               <<Quad, Margin(0, 0, m, 0)>>,
               <<Quad, Margin(0, 0, 0, m)>> }

MkFile(l, m) ==
    [ readable |-> TRUE,
      data0    |-> l.nx * l.ny = 1,
      NumExt   |-> IF l.nx * l.ny = 1 THEN 0 ELSE l.nx * l.ny,
      NUM_AMPX |-> l.nx,
      NUM_AMPY |-> l.ny,
      NAXIS1   |-> RawCols,
      NAXIS2   |-> RawRows,
      OVRSCAN1 |-> m.oc,
      OVRSCAN2 |-> m.or,
      PRESCAN1 |-> m.uc,
      PRESCAN2 |-> m.ur,
      AMP_CFG  |-> l.cfg,
      JPG_EXT  |-> l.jpg,
      pix      |-> [a \in 1..(l.nx * l.ny) |->
                      [i \in 1..(RawCols * RawRows) |-> Pixel(a - 1, i - 1)]] ]

\* a file pyfits.open cannot open
BadFile == [readable |-> FALSE]

\* a file of two HDUs whose primary HDU carries no data (one image extension):
\* len(hdulist) = 2 gives NumExt = 0, and hdulist[0].data is None
EmptyPrimaryFile == [readable |-> TRUE, data0 |-> FALSE, NumExt |-> 0]

Files == { MkFile(c[1], c[2]) : c \in Cases }

----------------------------------------------------------------------------
(* Construction *)

\* the paths write_file touches: the image file under either name and the lock file
Paths == {"image.fits", "image.bin", "image.OK"}

\* FocalPlane() as image.py finds it after construction: one amplifier, no pixels
InitFocalPlane ==
    [ numamps_x |-> 1, numamps_y |-> 1,
      num_ser_amps_det |-> 1, num_par_amps_det |-> 1,
      numamps_image |-> 1,
      numcols_amp |-> 0, numrows_amp |-> 0, numpix_amp |-> 0,
      numcols_image |-> 0, numrows_image |-> 0,
      numcols_overscan |-> 0, numcols_underscan |-> 0,
      numrows_overscan |-> 0, numrows_underscan |-> 0,
      amp_cfg |-> <<0>>, jpg_ext |-> <<1>> ]

Init ==
    /\ is_valid = 0
    /\ filetype = 0
    /\ size_x = 0
    /\ size_y = 0
    /\ buffer = [shape |-> <<0>>, flat |-> <<>>]
    /\ from_file = 0
    /\ scales = <<>>
    /\ offsets = <<>>
    /\ data = <<>>
    /\ assembled = 0
    /\ trimmed = 0
    /\ self_trim = 1
    /\ asmsize = <<0, 0>>
    /\ focalplane = InitFocalPlane
    /\ disk = [p \in Paths |-> "none"]
    /\ origin = <<>>
    /\ last = [op |-> "init", ok |-> TRUE, trim |-> 0, ran |-> FALSE]

----------------------------------------------------------------------------
(* read_file / _read_fits_file *)

\* the focal plane after _read_fits_file has read file f
ReadFocalPlane(f) ==
    LET n == f.NumExt
        ser == f.NUM_AMPX
        par == f.NUM_AMPY
        common == [ focalplane EXCEPT
                      !.numamps_image = Max(1, n),
                      !.numamps_x = f.NUM_AMPX,
                      !.numamps_y = f.NUM_AMPY,
                      !.num_ser_amps_det = f.NUM_AMPX,
                      !.num_par_amps_det = f.NUM_AMPY,
                      !.amp_cfg = f.AMP_CFG,
                      !.jpg_ext = f.JPG_EXT,
                      !.numcols_amp = f.NAXIS1,
                      !.numrows_amp = f.NAXIS2,
                      !.numpix_amp = f.NAXIS2 * f.NAXIS1 ]
    IN  IF n = 0
        THEN [ common EXCEPT
                 !.numcols_image = f.NAXIS1,
                 !.numrows_image = f.NAXIS2,
                 !.numcols_overscan = f.OVRSCAN1,
                 !.numrows_overscan = f.OVRSCAN2,
                 !.numcols_underscan = f.PRESCAN1,
                 !.numrows_underscan = f.PRESCAN1 ]
        ELSE [ common EXCEPT
                 !.numcols_overscan = f.OVRSCAN1,
                 !.numcols_underscan = f.PRESCAN1,
                 !.numrows_overscan = f.OVRSCAN2,
                 !.numrows_underscan = f.PRESCAN2,
                 !.numcols_image = f.NAXIS1 * ser,
                 !.numrows_image = f.NAXIS2 * par ]

\* read_file on a file pyfits.open cannot open: it raises after the flags were cleared
ReadFailed ==
    /\ filetype' = 0
    /\ assembled' = 0
    /\ is_valid' = 0
    /\ last' = [op |-> "read_file", ok |-> FALSE, trim |-> 0, ran |-> FALSE]
    /\ UNCHANGED <<self_trim, size_x, size_y, buffer, from_file, scales, offsets, data,
                   trimmed, asmsize, focalplane, disk, origin>>

\* read_file on a two-HDU file with an empty primary HDU: the amplifier count and
\* the file type were already set when hdulist[0].data.dtype raises
ReadFailedAtDtype ==
    /\ filetype' = 0
    /\ assembled' = 0
    /\ is_valid' = 0
    /\ focalplane' = [focalplane EXCEPT !.numamps_image = 1]
    /\ last' = [op |-> "read_file", ok |-> FALSE, trim |-> 0, ran |-> FALSE]
    /\ UNCHANGED <<self_trim, size_x, size_y, buffer, from_file, scales, offsets, data,
                   trimmed, asmsize, disk, origin>>

ReadFile(f, g) ==
    IF ~f.readable
    THEN ReadFailed
    ELSE IF f.NumExt = 0 /\ ~f.data0
    THEN ReadFailedAtDtype
    ELSE LET n == f.NumExt
             fp == ReadFocalPlane(f)
             sx == IF n = 0 THEN f.NAXIS1 ELSE f.NAXIS1 * fp.num_ser_amps_det
             sy == IF n = 0 THEN f.NAXIS2 ELSE f.NAXIS2 * fp.num_par_amps_det
         IN  /\ filetype' = IF n > 0 THEN 1 ELSE 0
             /\ assembled' = 0
             /\ focalplane' = fp
             /\ size_x' = sx
             /\ size_y' = sy
             /\ offsets' = [i \in 1..Max(1, n) |-> 0]
             /\ scales' = [i \in 1..Max(1, n) |-> 1]
             /\ data' = f.pix
             /\ is_valid' = 1
             /\ buffer' = NpEmpty(sy, sx, g)
             /\ origin' = BlankOrigin(sy * sx)
             /\ from_file' = 1
             /\ last' = [op |-> "read_file", ok |-> TRUE, trim |-> 0, ran |-> FALSE]
             /\ UNCHANGED <<self_trim, trimmed, asmsize, disk>>

----------------------------------------------------------------------------
(* assemble *)

\* self.data.size
DataSize == IF Len(data) = 0 THEN 0 ELSE Len(data) * Len(data[1])

\* (mutation: the margins are subtracted once, not once for each amplifier)
AsmGeometryOnce(trim) ==
    LET fp == focalplane
    IN  IF trim = 1
        THEN [ prescan1  |-> fp.numcols_underscan,
               overscan1 |-> fp.numcols_overscan,
               prescan2  |-> fp.numrows_underscan,
               overscan2 |-> fp.numrows_overscan,
               asm |-> << size_x - fp.numcols_overscan - fp.numcols_underscan,
                          size_y - fp.numrows_overscan - fp.numrows_underscan >> ]
        ELSE [ prescan1 |-> 0, overscan1 |-> 0, prescan2 |-> 0, overscan2 |-> 0,
               asm |-> <<size_x, size_y>> ]

\* the margins assemble removes and the assembled size it sets, for the trim argument
AsmGeometry(trim) ==
    LET fp == focalplane
    IN  IF trim = 1
        THEN [ prescan1  |-> fp.numcols_underscan,
               overscan1 |-> fp.numcols_overscan,
               prescan2  |-> fp.numrows_underscan,
               overscan2 |-> fp.numrows_overscan,
               asm |-> << size_x - fp.numamps_x * fp.numcols_overscan
                                 - fp.numamps_x * fp.numcols_underscan,
                          size_y - fp.numamps_y * fp.numrows_overscan
                                 - fp.numamps_y * fp.numrows_underscan >> ]
        ELSE [ prescan1 |-> 0, overscan1 |-> 0, prescan2 |-> 0, overscan2 |-> 0,
               asm |-> <<size_x, size_y>> ]

\* numpy.resize(buffer, cols*rows) followed by reshape((rows, cols)); resize refuses a
\* negative size, reshape refuses negative dimensions
ResizeReshape(b, asm) ==
    LET imgSize == asm[1] * asm[2]
    IN  IF imgSize < 0 THEN [ok |-> FALSE, buffer |-> b]
        ELSE IF asm[1] < 0
        THEN [ok |-> FALSE,
              buffer |-> [shape |-> <<imgSize>>, flat |-> NpResize(b.flat, imgSize)]]
        ELSE [ok |-> TRUE,
              buffer |-> [shape |-> <<asm[2], asm[1]>>, flat |-> NpResize(b.flat, imgSize)]]

\* the buffer the copy loop writes into: allocated anew unless the image came from a
\* file, then resized to the assembled size geo.asm
AsmBuffer(trim, g, geo) ==
    LET b0 == IF from_file # 1 THEN NpEmpty(size_y, size_x, g) ELSE buffer
    IN  IF trim = 1
        THEN ResizeReshape(b0, geo.asm)
        ELSE IF DataSize # NpSize(b0)
             THEN ResizeReshape(b0, geo.asm)
             ELSE [ok |-> TRUE, buffer |-> b0]

\* dstAmpX (= self.lineLen) and dstAmpY
DstAmpX(geo) == focalplane.numcols_amp - geo.prescan1 - geo.overscan1
DstAmpY(geo) == focalplane.numrows_amp - geo.prescan2 - geo.overscan2

\* the raw row (0-based) a destination line reads, by flip code
\* (mutation: the margins of the y flip and of the xy flip exchanged)
SourceRowSwapped(flip, srcLine, srcAmpY, prescan2, overscan2) ==
    CASE flip = 0 -> srcLine
      [] flip = 1 -> srcLine
      [] flip = 2 -> srcAmpY - srcLine - prescan2 - 1
      [] flip = 3 -> srcAmpY - srcLine - overscan2 - 1

SourceRow(flip, srcLine, srcAmpY, prescan2, overscan2) ==
    CASE flip = 0 -> srcLine
      [] flip = 1 -> srcLine
      [] flip = 2 -> srcAmpY - srcLine - overscan2 - 1
      [] flip = 3 -> srcAmpY - srcLine - prescan2 - 1

\* posX: the flat position in the raw block where the source segment starts
PosX(flip, srcLine, geo) ==
    SourceRow(flip, srcLine, focalplane.numrows_amp, geo.prescan2, geo.overscan2)
        * focalplane.numcols_amp + geo.prescan1

\* (mutation: the x flip copies the segment unreversed)
ReversedOnlyXY(flip) == flip = 3

\* whether the flip code reverses the extracted segment ([::-1])
Reversed(flip) == flip = 1 \/ flip = 3

\* (mutation: the offset is subtracted after scaling)
CalibrateScaleFirst(raw, off, sc) == raw * sc - off

\* (pixel - Offsets[indx]) * Scales[indx]
Calibrate(raw, off, sc) == (raw - off) * sc

\* buffer[line] of a 2-D buffer, and the history cells that go with it
RowOk(buf, line) == Len(buf.shape) = 2 /\ PyIndexOk(buf.shape[1], line)
BufferRow(buf, line) ==
    IF ~RowOk(buf, line) THEN <<>>
    ELSE [x \in 1..buf.shape[2] |->
            buf.flat[PyIndex(buf.shape[1], line) * buf.shape[2] + x]]
OriginRow(buf, org, line) ==
    IF ~RowOk(buf, line) THEN <<>>
    ELSE [x \in 1..buf.shape[2] |-> org[PyIndex(buf.shape[1], line) * buf.shape[2] + x]]

\* What one pass of the innermost loop body leaves of row = buffer[line] and of its
\* history cells.  kind is "write" (a flip branch ran), "skip" (no branch matched
\* the flip code) or "error" (an index or shape error was raised).
StepError(row, orow) == [kind |-> "error", row |-> row, orow |-> orow]
StepSkip(row, orow) == [kind |-> "skip", row |-> row, orow |-> orow]

\* data[indx][posX : posX + n]
SourceSlice(raw, posX, n) == PySlice(Len(raw), posX, posX + n)

\* the 0-based raw position copied to the j-th cell of the target slice; a source
\* of one pixel is broadcast
RawAt(src, flip, j) ==
    IF src.n = 1 THEN src.lo
    ELSE IF Reversed(flip) THEN src.lo + src.n - 1 - j
    ELSE src.lo + j

\* buffer[line][lineStart : lineStart + dstAmpX] = (segment - off) * sc, where the
\* segment is the slice src of raw (amplifier amp, 0-based) and tgt is the slice of row
CopySegment(row, orow, flip, amp, raw, off, sc, src, tgt) ==
    IF src.n # tgt.n /\ src.n # 1 THEN StepError(row, orow)
    ELSE [ kind |-> "write",
           row  |-> [ x \in 1..Len(row) |->
                        IF x > tgt.lo /\ x <= tgt.lo + tgt.n
                        THEN Calibrate(raw[RawAt(src, flip, x - tgt.lo - 1) + 1], off, sc)
                        ELSE row[x] ],
           orow |-> [ x \in 1..Len(orow) |->
                        IF x > tgt.lo /\ x <= tgt.lo + tgt.n
                        THEN [amp |-> amp + 1,
                              idx |-> RawAt(src, flip, x - tgt.lo - 1) + 1,
                              n |-> orow[x].n + 1]
                        ELSE orow[x] ] ]

\* the four flip branches for amplifier indx (rowOk: buffer[line] exists)
CopyFlip(row, orow, rowOk, lineStart, srcLine, geo, indx, flip) ==
    IF flip \notin {0, 1, 2, 3} THEN StepSkip(row, orow)
    ELSE IF ~PyIndexOk(Len(data), indx)
            \/ ~PyIndexOk(Len(offsets), indx)
            \/ ~PyIndexOk(Len(scales), indx)
            \/ ~rowOk
    THEN StepError(row, orow)
    ELSE CopySegment(row, orow, flip,
                     PyIndex(Len(data), indx),
                     data[PyIndex(Len(data), indx) + 1],
                     offsets[PyIndex(Len(offsets), indx) + 1],
                     scales[PyIndex(Len(scales), indx) + 1],
                     SourceSlice(data[PyIndex(Len(data), indx) + 1],
                                 PosX(flip, srcLine, geo), DstAmpX(geo)),
                     PySlice(Len(row), lineStart, lineStart + DstAmpX(geo)))

\* flip = int(AmpFlip[indx])
CopyAmp(row, orow, rowOk, lineStart, srcLine, geo, indx) ==
    IF ~PyIndexOk(Len(focalplane.amp_cfg), indx) THEN StepError(row, orow)
    ELSE CopyFlip(row, orow, rowOk, lineStart, srcLine, geo, indx,
                  focalplane.amp_cfg[PyIndex(Len(focalplane.amp_cfg), indx) + 1])

\* (mutation: the amplifier taken in storage order, indx = currExt, not through Ext)
CopyStepInOrder(row, orow, rowOk, lineStart, srcLine, currExt, geo) ==
    IF ~PyIndexOk(Len(focalplane.jpg_ext), currExt) THEN StepError(row, orow)
    ELSE CopyAmp(row, orow, rowOk, lineStart, srcLine, geo, currExt)

\* indx = Ext[currExt] - 1, then the copy of one line of that amplifier
CopyStep(row, orow, rowOk, lineStart, srcLine, currExt, geo) ==
    IF ~PyIndexOk(Len(focalplane.jpg_ext), currExt) THEN StepError(row, orow)
    ELSE CopyAmp(row, orow, rowOk, lineStart, srcLine, geo,
                 focalplane.jpg_ext[PyIndex(Len(focalplane.jpg_ext), currExt) + 1] - 1)

\* the loop over the amplifiers of one line (currExt = extBase + e), from the e-th
\* on; CopyLineFrom goes on after the pass that ended as st
RECURSIVE CopyLine(_, _, _, _, _, _, _, _)
RECURSIVE CopyLineFrom(_, _, _, _, _, _, _)
CopyLineFrom(e, lineStart, rowOk, srcLine, extBase, geo, st) ==
    IF st.kind = "error" THEN [ok |-> FALSE, row |-> st.row, orow |-> st.orow]
    ELSE CopyLine(e + 1,
                  IF st.kind = "write" THEN lineStart + DstAmpX(geo) ELSE lineStart,
                  st.row, st.orow, rowOk, srcLine, extBase, geo)
CopyLine(e, lineStart, row, orow, rowOk, srcLine, extBase, geo) ==
    IF e >= focalplane.num_ser_amps_det THEN [ok |-> TRUE, row |-> row, orow |-> orow]
    ELSE CopyLineFrom(e, lineStart, rowOk, srcLine, extBase, geo,
                      CopyStep(row, orow, rowOk, lineStart, srcLine, extBase + e, geo))

\* the loops over parAmps and line, flattened: line runs over 0 .. par*dstAmpY - 1
\* with parAmps = line \div dstAmpY.  rows and orows collect the lines gone through;
\* the loop stops at the first error.  CopyLoopFrom goes on after the line that
\* ended as ln.
RECURSIVE CopyLoop(_, _, _, _, _, _)
RECURSIVE CopyLoopFrom(_, _, _, _, _, _, _)
CopyLoopFrom(line, rows, orows, buf, org, geo, ln) ==
    IF ~ln.ok
    THEN [ok |-> FALSE, rows |-> Append(rows, ln.row), orows |-> Append(orows, ln.orow)]
    ELSE CopyLoop(line + 1, Append(rows, ln.row), Append(orows, ln.orow), buf, org, geo)
CopyLoop(line, rows, orows, buf, org, geo) ==
    IF DstAmpY(geo) <= 0 \/ line >= focalplane.num_par_amps_det * DstAmpY(geo)
    THEN [ok |-> TRUE, rows |-> rows, orows |-> orows]
    ELSE CopyLoopFrom(line, rows, orows, buf, org, geo,
                      CopyLine(0, 0, BufferRow(buf, line), OriginRow(buf, org, line),
                               RowOk(buf, line),
                               geo.prescan2 + (line % DstAmpY(geo)),
                               (line \div DstAmpY(geo)) * focalplane.num_ser_amps_det,
                               geo))

\* the buffer with its first Len(rows) lines replaced by rows
WithRows(buf, rows) ==
    IF Len(buf.shape) # 2 THEN buf
    ELSE [ buf EXCEPT !.flat =
             [ i \in 1..Len(buf.flat) |->
                 IF (i - 1) \div buf.shape[2] < Len(rows)
                 THEN rows[((i - 1) \div buf.shape[2]) + 1][((i - 1) % buf.shape[2]) + 1]
                 ELSE buf.flat[i] ] ]
OriginWithRows(buf, org, orows) ==
    IF Len(buf.shape) # 2 THEN org
    ELSE [ i \in 1..Len(org) |->
             IF (i - 1) \div buf.shape[2] < Len(orows)
             THEN orows[((i - 1) \div buf.shape[2]) + 1][((i - 1) % buf.shape[2]) + 1]
             ELSE org[i] ]

\* (mutation: the validity check is missing)
NotValidUnchecked == FALSE

\* "if not self.is_valid: raise"
NotValid == is_valid = 0

\* (mutation: the assembled flag is not consulted)
AlreadyAssembledUnchecked == FALSE

\* "if self.assembled: return"
AlreadyAssembled == assembled # 0

\* What an assemble call leaves in the fields it writes.  ok is FALSE when it
\* raised; ran is TRUE when it went past the two entry checks.
\* - it raised or returned at an entry check
AssembleSkipped(ok) ==
    [ ok |-> ok, ran |-> FALSE, asmsize |-> asmsize, buffer |-> buffer,
      origin |-> origin, assembled |-> assembled, trimmed |-> trimmed ]
\* - it raised after asmsize was set, with the buffer as b
AssembleFailed(geo, b, o) ==
    [ ok |-> FALSE, ran |-> TRUE, asmsize |-> geo.asm, buffer |-> b, origin |-> o,
      assembled |-> assembled, trimmed |-> trimmed ]
\* - the copy loop left the buffer as b: the final reshape and the flags
AssembleEnd(trim, geo, copied, b, o) ==
    IF ~copied \/ Len(b.flat) # geo.asm[1] * geo.asm[2]
    THEN AssembleFailed(geo, b, o)
    ELSE [ ok |-> TRUE, ran |-> TRUE, asmsize |-> geo.asm,
           buffer |-> [b EXCEPT !.shape = <<geo.asm[2], geo.asm[1]>>],
           origin |-> o,
           assembled |-> 1,
           trimmed |-> IF trim = 1 THEN 1 ELSE trimmed ]
\* - the copy loop ended as lp on the resized buffer buf
AssembleCopied(trim, geo, buf, lp) ==
    AssembleEnd(trim, geo, lp.ok, WithRows(buf, lp.rows),
                OriginWithRows(buf, BlankOrigin(Len(buf.flat)), lp.orows))
\* - the resize ended as ab
AssembleResized(trim, geo, ab) ==
    IF ~ab.ok
    THEN AssembleFailed(geo, ab.buffer, BlankOrigin(Len(ab.buffer.flat)))
    ELSE AssembleCopied(trim, geo, ab.buffer,
                        CopyLoop(0, <<>>, <<>>, ab.buffer,
                                 BlankOrigin(Len(ab.buffer.flat)), geo))

\* assemble(trim)
AssembleCall(trim, g) ==
    IF NotValid THEN AssembleSkipped(FALSE)
    ELSE IF AlreadyAssembled THEN AssembleSkipped(TRUE)
    ELSE AssembleResized(trim, AsmGeometry(trim), AsmBuffer(trim, g, AsmGeometry(trim)))

\* an assemble that calibrates the rows of data in place before copying them
AssembledCalibratingData(trim, r) ==
    /\ asmsize' = r.asmsize
    /\ buffer' = r.buffer
    /\ origin' = r.origin
    /\ assembled' = r.assembled
    /\ trimmed' = r.trimmed
    /\ data' = [a \in 1..Len(data) |->
                  IF r.ran /\ a <= Len(scales) /\ a <= Len(offsets)
                  THEN [i \in 1..Len(data[a]) |-> Calibrate(data[a][i], offsets[a], scales[a])]
                  ELSE data[a]]
    /\ last' = [op |-> "assemble", ok |-> r.ok, trim |-> trim, ran |-> r.ran]
    /\ UNCHANGED <<self_trim, is_valid, filetype, size_x, size_y, from_file, scales, offsets,
                   focalplane, disk>>

\* the image after an assemble(trim) that ended as r
Assembled(trim, r) ==
    /\ asmsize' = r.asmsize
    /\ buffer' = r.buffer
    /\ origin' = r.origin
    /\ assembled' = r.assembled
    /\ trimmed' = r.trimmed
    /\ last' = [op |-> "assemble", ok |-> r.ok, trim |-> trim, ran |-> r.ran]
    /\ UNCHANGED <<self_trim, is_valid, filetype, size_x, size_y, from_file, scales, offsets,
                   data, focalplane, disk>>

\* (mutation: the trim = -1 default resolved to the stored preference)
AssembleDefaulting(trim, g) ==
    Assembled(trim, AssembleCall(IF trim = -1 THEN self_trim ELSE trim, g))

Assemble(trim, g) == Assembled(trim, AssembleCall(trim, g))

\* a caller clears the flag to force the next assemble to recompute
ResetAssembled ==
    /\ assembled' = 0
    /\ last' = [op |-> "reset", ok |-> TRUE, trim |-> 0, ran |-> FALSE]
    /\ UNCHANGED <<self_trim, is_valid, filetype, size_x, size_y, buffer, from_file, scales,
                   offsets, data, trimmed, asmsize, focalplane, disk, origin>>

\* a caller stores a trim preference in the trim attribute
SetTrim(v) ==
    /\ self_trim' = v
    /\ last' = [op |-> "set_trim", ok |-> TRUE, trim |-> 0, ran |-> FALSE]
    /\ UNCHANGED <<is_valid, filetype, size_x, size_y, buffer, from_file, scales,
                   offsets, data, assembled, trimmed, asmsize, focalplane, disk, origin>>

----------------------------------------------------------------------------
(* set_scaling *)

\* an optional list argument: omitted (None) or a list
None == [given |-> FALSE, v |-> <<>>]
Some(v) == [given |-> TRUE, v |-> v]

\* set_scaling with the arrays sized by the rows of data instead of numamps_image
SetScalingCallByRows(gains, offs) ==
    LET L == Len(data)
        gv == IF gains.given THEN gains.v ELSE [i \in 1..L |-> 1]
        ov == IF offs.given THEN offs.v ELSE [i \in 1..L |-> 0]
        bad == {c \in 0..(L - 1) : c >= Len(gv) \/ c >= Len(ov)}
        stop == IF bad = {} THEN L ELSE CHOOSE c \in bad : \A d \in bad : c <= d
    IN  [ ok |-> bad = {},
          scales |-> [i \in 1..L |-> IF i - 1 < stop THEN gv[i] ELSE 1],
          offsets |-> [i \in 1..L |-> IF i - 1 < stop THEN ov[i] ELSE 0] ]

\* set_scaling(gains, offsets): the arrays are reset to the defaults for
\* numamps_image amplifiers, then entry chan is overwritten for chan in
\* range(len(self.data)), scales first; the first bad index raises IndexError
SetScalingCall(gains, offs) ==
    LET n == focalplane.numamps_image
        L == Len(data)
        gv == IF gains.given THEN gains.v ELSE [i \in 1..L |-> 1]
        ov == IF offs.given THEN offs.v ELSE [i \in 1..L |-> 0]
        failS(c) == c >= Len(gv) \/ c >= n
        failO(c) == c >= Len(ov) \/ c >= n
        bad == {c \in 0..(L - 1) : failS(c) \/ failO(c)}
        stop == IF bad = {} THEN L ELSE CHOOSE c \in bad : \A d \in bad : c <= d
    IN  [ ok |-> bad = {},
          scales |-> [i \in 1..n |->
                        IF i - 1 < stop \/ (i - 1 = stop /\ stop < L /\ ~failS(stop))
                        THEN gv[i] ELSE 1],
          offsets |-> [i \in 1..n |-> IF i - 1 < stop THEN ov[i] ELSE 0] ]

SetScaling(gains, offs) ==
    LET r == SetScalingCall(gains, offs)
    IN  /\ scales' = r.scales
        /\ offsets' = r.offsets
        /\ last' = [op |-> "set_scaling", ok |-> r.ok, trim |-> 0, ran |-> FALSE]
        /\ UNCHANGED <<self_trim, is_valid, filetype, size_x, size_y, buffer, from_file, data,
                       assembled, trimmed, asmsize, focalplane, disk, origin>>

\* the (gains, offsets) arguments callers pass for n amplifiers: nothing, or a
\* different gain and offset for each amplifier
ScalingArgs(n) ==
    { <<None, None>>,
      <<Some([i \in 1..n |-> 1 + (i % MaxGain)]), Some([i \in 1..n |-> MaxOffset + i - 1])>> }

\* a caller's gains list and offsets list of k entries, none of them a default
GainList(k) == Some([i \in 1..k |-> 2 + (i % MaxGain)])
OffsetList(k) == Some([i \in 1..k |-> MaxOffset + i - 1])

\* the longest list a caller passes
MaxList == 3

\* every way of calling set_scaling: each argument omitted, or a list of 0..MaxList
\* entries, the two lengths independent of each other and of the amplifier count
ScalingCases ==
    ({None} \cup {GainList(k) : k \in 0..MaxList})
        \X ({None} \cup {OffsetList(k) : k \in 0..MaxList})

----------------------------------------------------------------------------
(* The image object under its callers *)

----------------------------------------------------------------------------
(* write_file and the writers.  A writer returns
     [raised, error, disk, asm, size]
   raised: it raised an exception; error: it returned ["ERROR", s];
   disk: the files afterwards; asm: what assemble left (as AssembleCall);
   size: <<self.size_x, self.size_y>> afterwards. *)

\* os.path.exists
Exists(d, p) == d[p] # "none"

\* filename.replace(".bin", ".OK")
LockFileName(filename) == IF filename = "image.bin" THEN "image.OK" ELSE filename

\* the number of passes of the removal loop of _write_fits_file
MaxRemoveTries == 10

\* the removal loop when the first `fails` calls of os.remove raise
RECURSIVE RemoveLoop(_, _)
RemoveLoop(loop, fails) ==
    IF loop < MaxRemoveTries
    THEN IF loop < fails
         THEN RemoveLoop(loop + 1, fails)
         ELSE [loop |-> loop, removed |-> TRUE]
    ELSE [loop |-> loop, removed |-> FALSE]

\* assemble was not called: the image fields as they are
NoCall ==
    [ ok |-> TRUE, ran |-> FALSE, asmsize |-> asmsize, buffer |-> buffer,
      origin |-> origin, assembled |-> assembled, trimmed |-> trimmed ]

Returned(d, asm) ==
    [raised |-> FALSE, error |-> FALSE, disk |-> d, asm |-> asm, size |-> <<size_x, size_y>>]
Raised(d, asm) ==
    [raised |-> TRUE, error |-> FALSE, disk |-> d, asm |-> asm, size |-> <<size_x, size_y>>]

\* HDUList.writeto(filename) with overwrite=False: OSError when the file exists
WriteTo(d, filename, kind, asm) ==
    IF Exists(d, filename)
    THEN Raised(d, asm)
    ELSE Returned([d EXCEPT ![filename] = kind], asm)

\* numpy.ndarray(shape=(rows, cols), buffer=flat) needs rows*cols elements
NdarrayFits(rows, cols, flat) == rows * cols <= Len(flat)

\* `if not self.assembled: self.assemble(1)` in a writer.  pre is what the call
\* did so far; when it left assembled unset it changed nothing, so assemble runs
\* on the current fields.
AssembleIfNot(pre, g) ==
    IF pre.assembled # 0 THEN pre ELSE AssembleCall(1, g)

\* writeto after the assemble of a writer ended as a
WriteAssembled(d, filename, kind, a) ==
    IF ~a.ok THEN Raised(d, a)
    ELSE IF ~NdarrayFits(a.asmsize[2], a.asmsize[1], a.buffer.flat) THEN Raised(d, a)
    ELSE WriteTo(d, filename, kind, a)

WriteStandardFitsFile(d, filename, pre, g) ==
    IF focalplane.numamps_image = 1
    THEN IF Len(data) = 0
         THEN Raised(d, pre)
         ELSE IF ~NdarrayFits(focalplane.numrows_image, focalplane.numcols_image, data[1])
         THEN Raised(d, pre)
         ELSE WriteTo(d, filename, "fits", pre)
    ELSE WriteAssembled(d, filename, "fits", AssembleIfNot(pre, g))

WriteMefFile(d, filename, pre) ==
    IF \E e \in 1..focalplane.numamps_image :
          \/ e > Len(data)
          \/ ~NdarrayFits(focalplane.numrows_amp, focalplane.numcols_amp, data[e])
    THEN Raised(d, pre)
    ELSE WriteTo(d, filename, "mef", pre)

WriteAsmFitsFile(d, filename, pre, g) ==
    WriteAssembled(d, filename, "asm", AssembleIfNot(pre, g))

\* self.size_x, self.size_y = numcols_image, numrows_image (the sizes read_file set,
\* so the assemble that follows sees the sizes it would have seen before)
BinSized(w) ==
    [w EXCEPT !.size = <<focalplane.numcols_image, focalplane.numrows_image>>]

\* (mutation: astype and squeeze done on self.buffer itself rather than on a copy)
WriteBinAssembledInPlace(d, filename, a) ==
    IF ~a.ok
    THEN BinSized(Raised(d, a))
    ELSE BinSized(Returned([d EXCEPT ![filename] = "bin"],
                           [a EXCEPT !.buffer.shape = <<Len(a.buffer.flat)>>]))

\* open(filename, "wb") after the assemble ended as a: it replaces whatever is there
WriteBinAssembled(d, filename, a) ==
    IF ~a.ok
    THEN BinSized(Raised(d, a))
    ELSE BinSized(Returned([d EXCEPT ![filename] = "bin"], a))

WriteBinFile(d, filename, pre, g) ==
    WriteBinAssembled(d, filename, AssembleIfNot(pre, g))

\* the file removed by the loop of _write_fits_file when it could be
RemovedIf(d, filename, removed) ==
    IF removed THEN [d EXCEPT ![filename] = "none"] ELSE d

\* `if self.assemble_image: self.assemble()`, then the writer for the type
WriteFitsType(d, filename, ftype, pre, g) ==
    IF ~pre.ok THEN Raised(d, pre)
    ELSE CASE ftype = 0 -> WriteStandardFitsFile(d, filename, pre, g)
           [] ftype = 1 -> WriteMefFile(d, filename, pre)
           [] ftype = 6 -> WriteAsmFitsFile(d, filename, pre, g)
           [] OTHER -> Returned(d, pre)

\* _write_fits_file(filename, filetype) when the removal loop ended as rm
WriteFitsRemoved(d, filename, ftype, opts, rm, g) ==
    IF Exists(d, filename) /\ opts.overwrite = 0 /\ opts.test_image = 0
    THEN [Returned(d, NoCall) EXCEPT !.error = TRUE]
    ELSE IF Exists(d, filename) /\ rm.loop > MaxRemoveTries
    THEN [Returned(d, NoCall) EXCEPT !.error = TRUE]
    ELSE WriteFitsType(RemovedIf(d, filename, Exists(d, filename) /\ rm.removed),
                       filename, ftype,
                       IF opts.assemble_image # 0 THEN AssembleCall(-1, g) ELSE NoCall,
                       g)

\* _write_fits_file(filename, filetype); the first `fails` calls of os.remove raise
WriteFitsFileCall(d, filename, ftype, opts, fails, g) ==
    WriteFitsRemoved(d, filename, ftype, opts, RemoveLoop(0, fails), g)

\* the writer write_file calls for file type ft
WriteType(d, filename, ft, opts, fails, g) ==
    CASE ft = 0 -> [WriteFitsFileCall(d, filename, 0, opts, fails, g) EXCEPT !.error = FALSE]
      [] ft = 1 -> WriteMefFile(d, filename, NoCall)
      [] ft = 2 -> WriteBinFile(d, filename, NoCall, g)
      [] ft = 6 -> WriteAsmFitsFile(d, filename, NoCall, g)
      [] OTHER -> Raised(d, NoCall)

\* the lock file, made when the writer returned
WriteLocked(filename, opts, w) ==
    IF w.raised THEN w
    ELSE IF opts.make_lockfile # 0
    THEN [w EXCEPT !.disk[LockFileName(filename)] = "empty"]
    ELSE w

\* write_file(filename, filetype); the value _write_fits_file returns is dropped
WriteFileCall(filename, ftarg, opts, fails, g) ==
    IF (opts.overwrite # 0 \/ opts.test_image # 0) /\ Exists(disk, filename)
    THEN IF fails > 0
         THEN Raised(disk, NoCall)
         ELSE WriteLocked(filename, opts,
                          WriteType([disk EXCEPT ![filename] = "none"], filename,
                                    IF ftarg = -1 THEN filetype ELSE ftarg, opts, fails, g))
    ELSE WriteLocked(filename, opts,
                     WriteType(disk, filename,
                               IF ftarg = -1 THEN filetype ELSE ftarg, opts, fails, g))

\* the image after a writer ended as w
Wrote(w, op) ==
    /\ disk' = w.disk
    /\ size_x' = w.size[1]
    /\ size_y' = w.size[2]
    /\ asmsize' = w.asm.asmsize
    /\ buffer' = w.asm.buffer
    /\ origin' = w.asm.origin
    /\ assembled' = w.asm.assembled
    /\ trimmed' = w.asm.trimmed
    /\ last' = [op |-> op, ok |-> ~w.raised /\ ~w.error, trim |-> 0, ran |-> w.asm.ran]
    /\ UNCHANGED <<self_trim, is_valid, filetype, from_file, scales, offsets, data, focalplane>>

WriteFile(filename, ftarg, opts, fails, g) ==
    Wrote(WriteFileCall(filename, ftarg, opts, fails, g), "write_file")

\* _write_fits_file(filename, filetype) called on its own
WriteFitsFile(filename, ftype, opts, fails, g) ==
    Wrote(WriteFitsFileCall(disk, filename, ftype, opts, fails, g), "_write_fits_file")

\* the attributes a caller sets before writing
Options(o, t, l, a) ==
    [overwrite |-> o, test_image |-> t, make_lockfile |-> l, assemble_image |-> a]

\* <<attributes, number of os.remove calls that raise>> of a write_file call
WriteCases ==
    { <<Options(0, 0, 0, 0), 0>>, <<Options(1, 0, 0, 0), 0>>, <<Options(1, 0, 0, 0), 1>>,
      <<Options(0, 0, 1, 0), 0>>, <<Options(0, 1, 1, 1), 0>> }

\* <<filename, filetype argument>> of a write_file call: the default type, FITS,
\* MEF, ASM and a type that is none of them under a FITS name, BIN under a .bin name
WriteTargets ==
    { <<"image.fits", -1>>, <<"image.fits", 0>>, <<"image.fits", 1>>,
      <<"image.fits", 6>>, <<"image.fits", 3>>, <<"image.bin", 2>> }

TrimArgs == {-1, 0, 1}

\* what a buffer allocated by assemble may hold: it allocates only when the image
\* did not come from a file
Allocated == IF from_file # 1 THEN Garbage ELSE {0}

Next ==
    \/ \E f \in Files \cup {BadFile}, g \in Garbage : ReadFile(f, g)
    \/ \E t \in TrimArgs, g \in Allocated : Assemble(t, g)
    \/ ResetAssembled
    \/ \E a \in ScalingArgs(Len(data)) : SetScaling(a[1], a[2])

Spec == Init /\ [][Next]_vars

\* the files of the runs that also write
WriteFiles ==
    LET m == MaxMargin
    IN  { MkFile(Single(0), Margin(m, m, m, m)), MkFile(Pair, Margin(m, 0, 0, 0)) }

NextWrite ==
    \/ \E f \in WriteFiles, g \in Garbage : ReadFile(f, g)
    \/ \E t \in TrimArgs, g \in Allocated : Assemble(t, g)
    \/ ResetAssembled
    \/ \E a \in ScalingArgs(Len(data)) : SetScaling(a[1], a[2])
    \/ \E w \in WriteTargets, c \in WriteCases, g \in Allocated :
          WriteFile(w[1], w[2], c[1], c[2], g)

SpecWrite == Init /\ [][NextWrite]_vars

\* the files read when the scaling calls are explored: one amplifier, two
\* amplifiers, and a file whose read stops after the amplifier count was set
ScalingFiles ==
    { MkFile(Single(0), NoMargin), MkFile(Pair, NoMargin), EmptyPrimaryFile }

NextScaling ==
    \/ \E f \in ScalingFiles, g \in Garbage : ReadFile(f, g)
    \/ \E a \in ScalingCases : SetScaling(a[1], a[2])
    \/ \E g \in Allocated : Assemble(-1, g)

SpecScaling == Init /\ [][NextScaling]_vars

\* the writers explored call by call: every file type under both names, and
\* _write_fits_file on its own with os.remove failing never, on all passes but
\* the last, and on every pass
FitsFiles == { MkFile(Single(0), NoMargin), MkFile(Pair, NoMargin) }

FitsTargets == {"image.fits", "image.bin"} \X {0, 1, 2, 6}

FitsCases ==
    { <<Options(0, 0, 0, 0), 0>>, <<Options(1, 0, 0, 0), 0>>, <<Options(0, 0, 1, 0), 0>> }

RemoveCases ==
    { <<Options(0, 0, 0, 0), 0>>, <<Options(1, 0, 0, 0), 0>>,
      <<Options(1, 0, 0, 0), MaxRemoveTries - 1>>,
      <<Options(1, 0, 0, 1), MaxRemoveTries>>, <<Options(0, 1, 0, 0), MaxRemoveTries>> }

NextFits ==
    \/ \E f \in FitsFiles, g \in Garbage : ReadFile(f, g)
    \/ \E w \in FitsTargets, c \in FitsCases, g \in Allocated :
          WriteFile(w[1], w[2], c[1], c[2], g)
    \/ \E t \in {0, 1, 6}, c \in RemoveCases, g \in Allocated :
          WriteFitsFile("image.fits", t, c[1], c[2], g)

SpecFits == Init /\ [][NextFits]_vars

\* assemblies under either stored trim preference, on files with margins
TrimFiles ==
    { MkFile(Single(c), Margin(m, m, m, m)) : c \in {0, 2}, m \in {MaxMargin} }
        \cup { MkFile(Quad, Margin(0, 0, 0, m)) : m \in {MaxMargin} }

NextTrim ==
    \/ \E f \in TrimFiles, g \in Garbage : ReadFile(f, g)
    \/ \E v \in {0, 1} : SetTrim(v)
    \/ \E t \in TrimArgs, g \in Allocated : Assemble(t, g)
    \/ ResetAssembled

SpecTrim == Init /\ [][NextTrim]_vars

----------------------------------------------------------------------------
(* The geometry in the terms of the specification *)

ampGridX == focalplane.num_ser_amps_det
ampGridY == focalplane.num_par_amps_det
ampCols == focalplane.numcols_amp
ampRows == focalplane.numrows_amp
underscanCols == focalplane.numcols_underscan
overscanCols == focalplane.numcols_overscan
underscanRows == focalplane.numrows_underscan
overscanRows == focalplane.numrows_overscan
readoutOrder == focalplane.jpg_ext
flipCode == focalplane.amp_cfg

\* margins removed and per-amplifier destination extent for a trim argument
trimColsLeft(trim) == IF trim = 1 THEN underscanCols ELSE 0
trimRowsTop(trim) == IF trim = 1 THEN underscanRows ELSE 0
dstAmpCols(trim) == IF trim = 1 THEN ampCols - underscanCols - overscanCols ELSE ampCols
dstAmpRows(trim) == IF trim = 1 THEN ampRows - underscanRows - overscanRows ELSE ampRows

\* the last call was an assemble that ran the assembly and returned
JustAssembled == last.op = "assemble" /\ last.ok /\ last.ran

\* cell (r, c) of the assembled buffer, 0-based
BufAt(r, c) == buffer.flat[r * buffer.shape[2] + c + 1]
OriginAt(r, c) == origin[r * buffer.shape[2] + c + 1]

\* the amplifier (1-based, the readoutOrder entry) whose tile holds cell (r, c)
ContributingAmp(r, c, trim) ==
    readoutOrder[(r \div dstAmpRows(trim)) * ampGridX + (c \div dstAmpCols(trim)) + 1]

AllFlipsKnown == \A a \in 1..Len(flipCode) : flipCode[a] \in {0, 1, 2, 3}
IdentityCalibration ==
    /\ \A i \in 1..Len(scales) : scales[i] = 1
    /\ \A i \in 1..Len(offsets) : offsets[i] = 0

----------------------------------------------------------------------------
(* Claims *)

\* C1: assemble called while assembled is set is a no-op: buffer, asmsize, assembled
\* and trimmed are as before the call, for every trim argument and whatever
\* set_scaling did since the first assemble.
C1_AssembleTwiceIsNoOp ==
    [][ (assembled # 0 /\ last'.op = "assemble")
          => /\ last'.ok /\ ~last'.ran
             /\ buffer' = buffer
             /\ asmsize' = asmsize
             /\ assembled' = assembled
             /\ trimmed' = trimmed ]_vars

\* a second assemble has returned while the calibration is no longer the one the
\* buffer was computed with
C1_Witness ==
    /\ last.op = "assemble" /\ last.ok /\ ~last.ran /\ assembled = 1
    /\ \E i \in 1..Len(origin) :
          /\ origin[i].n > 0
          /\ scales[origin[i].amp] # 1
          /\ buffer.flat[i] = data[origin[i].amp][origin[i].idx]

\* C2: assemble called while is_valid is false fails and changes nothing: assembled
\* stays unset, buffer, asmsize and trimmed keep their values.
C2_AssembleInvalidFails ==
    [][ (is_valid = 0 /\ last'.op = "assemble")
          => /\ ~last'.ok
             /\ assembled' = 0
             /\ buffer' = buffer
             /\ asmsize' = asmsize
             /\ trimmed' = trimmed ]_vars

\* assemble has raised on an image whose earlier data is still loaded
C2_Witness ==
    /\ last.op = "assemble" /\ ~last.ok /\ ~last.ran
    /\ is_valid = 0 /\ Len(data) > 0

\* C3: after every successful assemble(trim), asmsize is
\* (ampGridX*dstAmpCols, ampGridY*dstAmpRows) and the buffer has that shape.
C3_ShapeInvariant ==
    JustAssembled =>
        /\ asmsize = << ampGridX * dstAmpCols(last.trim), ampGridY * dstAmpRows(last.trim) >>
        /\ buffer.shape = << asmsize[2], asmsize[1] >>
        /\ Len(buffer.flat) = asmsize[1] * asmsize[2]

\* an untrimmed re-assembly of an image with margins that was assembled trimmed before
C3_Witness ==
    /\ JustAssembled /\ last.trim # 1 /\ trimmed = 1
    /\ underscanCols + overscanCols + underscanRows + overscanRows > 0
    /\ ampGridX > 1

\* C4: after a successful assemble every pixel of the buffer is
\* (raw - offset[a]) * scale[a] for the amplifier a whose tile holds it and the raw
\* pixel copied there, for the four flip codes, trimmed or not.
C4_CalibrationLinearity ==
    (JustAssembled /\ AllFlipsKnown) =>
        \A r \in 0..(asmsize[2] - 1), c \in 0..(asmsize[1] - 1) :
            LET a == ContributingAmp(r, c, last.trim)
                o == OriginAt(r, c)
            IN  /\ o.n > 0
                /\ o.amp = a
                /\ BufAt(r, c) = (data[a][o.idx] - offsets[a]) * scales[a]

\* scale 2, offset 10, raw 110 gives 200
C4_Witness ==
    /\ JustAssembled /\ AllFlipsKnown
    /\ \E i \in 1..Len(origin) :
          /\ origin[i].n > 0
          /\ data[origin[i].amp][origin[i].idx] = 110
          /\ scales[origin[i].amp] = 2
          /\ offsets[origin[i].amp] = 10
          /\ buffer.flat[i] = 200

\* C5: with identity calibration, row k of the tile of a flip-0 amplifier is raw row
\* underscanRows+k, columns underscanCols .. underscanCols+dstAmpCols-1, in order;
\* for flip 1 the same segment reversed (margins are zero when not trimming).
C5_FlipRows ==
    (JustAssembled /\ IdentityCalibration) =>
        \A p \in 0..(ampGridY - 1), e \in 0..(ampGridX - 1) :
            LET a == readoutOrder[p * ampGridX + e + 1]
                t == last.trim
            IN  flipCode[a] \in {0, 1} =>
                  \A k \in 0..(dstAmpRows(t) - 1), j \in 0..(dstAmpCols(t) - 1) :
                      BufAt(p * dstAmpRows(t) + k, e * dstAmpCols(t) + j)
                        = data[a][ (trimRowsTop(t) + k) * ampCols + trimColsLeft(t)
                                   + (IF flipCode[a] = 0 THEN j ELSE dstAmpCols(t) - 1 - j)
                                   + 1 ]

\* a trimmed assembly of a flip-0 and a flip-1 amplifier side by side
C5_Witness ==
    /\ JustAssembled /\ IdentityCalibration /\ last.trim = 1
    /\ underscanCols > 0 /\ dstAmpCols(1) > 1
    /\ \E a, b \in 1..Len(flipCode) : flipCode[a] = 0 /\ flipCode[b] = 1

\* C6: assemble(1) removes the margins: for the four flip codes every pixel written
\* comes from the active region of its amplifier (raw rows underscanRows ..
\* ampRows-overscanRows-1, raw columns underscanCols .. ampCols-overscanCols-1) and
\* every active-region pixel appears in the output.
C6_TrimReadsActiveRegion ==
    (JustAssembled /\ last.trim = 1 /\ AllFlipsKnown) =>
        /\ \A i \in 1..Len(origin) :
              origin[i].n > 0 =>
                 LET row == (origin[i].idx - 1) \div ampCols
                     col == (origin[i].idx - 1) % ampCols
                 IN  /\ row >= underscanRows /\ row < ampRows - overscanRows
                     /\ col >= underscanCols /\ col < ampCols - overscanCols
        /\ \A a \in 1..Len(data) :
              \A row \in underscanRows..(ampRows - overscanRows - 1),
                 col \in underscanCols..(ampCols - overscanCols - 1) :
                  \E i \in 1..Len(origin) :
                      origin[i].amp = a /\ origin[i].idx = row * ampCols + col + 1

\* C7: when assembled is set, trimmed is true exactly when the assembly that
\* produced the buffer trimmed (stated for the state that assembly leaves).
C7_TrimmedTracksTrim ==
    JustAssembled => (trimmed = 1 <=> last.trim = 1)

\* C8: a failed assemble leaves assembled unset and buffer, asmsize and trimmed as
\* they were before the call.
C8_FailedAssembleChangesNothing ==
    [][ (last'.op = "assemble" /\ ~last'.ok)
          => /\ assembled' = 0
             /\ buffer' = buffer
             /\ asmsize' = asmsize
             /\ trimmed' = trimmed ]_vars

\* the amplifiers the copy loop goes through
UsedAmps ==
    { readoutOrder[k] : k \in 1..Min(Len(readoutOrder), ampGridX * ampGridY) }
        \cap (1..Len(flipCode))

\* C9: when an amplifier used in the assembly has a flip code outside {0,1,2,3},
\* assemble fails and does not set assembled.
C9_InvalidFlipFails ==
    (last.op = "assemble" /\ last.ran /\ \E a \in UsedAmps : flipCode[a] \notin {0, 1, 2, 3})
        => (~last.ok /\ assembled = 0)

\* C10: while assembled stays set no operation (assemble, set_scaling, write_file)
\* changes buffer or asmsize; read_file clears assembled, and the assemble after a
\* read_file runs the assembly again.
C10_AssembledBufferImmutable ==
    [][ /\ (assembled = 1 /\ assembled' = 1) => (buffer' = buffer /\ asmsize' = asmsize)
        /\ last'.op = "read_file" => assembled' = 0
        /\ (last.op = "read_file" /\ last.ok /\ last'.op = "assemble") => last'.ran ]_vars

\* a write_file that returned on an image assembled before the call
C10_Witness ==
    /\ assembled = 1
    /\ last.op = "write_file" /\ last.ok /\ ~last.ran
    /\ disk["image.bin"] = "bin"

----------------------------------------------------------------------------
(* set_scaling *)

Ones(n) == [i \in 1..n |-> 1]
Zeros(n) == [i \in 1..n |-> 0]

\* C11: set_scaling() with no arguments leaves scales and offsets of length
\* numamps_image, all ones and all zeros, whatever they held before and whatever
\* the number of rows of data; omitting only gains leaves scales all ones, and
\* omitting only offsets leaves offsets all zeros.
C11_DefaultScaling ==
    [][\A a \in ScalingCases :
          SetScaling(a[1], a[2]) =>
             LET n == focalplane.numamps_image
             IN  /\ (~a[1].given /\ ~a[2].given) =>
                       /\ Len(scales') = n /\ Len(offsets') = n
                       /\ \A i \in 1..n : scales'[i] = 1 /\ offsets'[i] = 0
                 /\ ~a[1].given => scales' = Ones(n)
                 /\ ~a[2].given => offsets' = Zeros(n)]_vars

\* a set_scaling call left the defaults while data has more rows than there are
\* amplifiers
C11_Witness ==
    /\ last.op = "set_scaling"
    /\ Len(data) > focalplane.numamps_image
    /\ scales = Ones(focalplane.numamps_image)
    /\ offsets = Zeros(focalplane.numamps_image)

\* C12: with both lists given (of one length, on loaded data), set_scaling does
\* not fail, entries 0 .. min(len, numamps_image)-1 hold the caller's values and
\* the remaining entries hold the defaults 1.0 and 0.0.
C12_PrefixOverwrite ==
    [][\A a \in ScalingCases :
          ( /\ a[1].given /\ a[2].given /\ Len(a[1].v) = Len(a[2].v)
            /\ is_valid = 1
            /\ SetScaling(a[1], a[2]) ) =>
             LET n == focalplane.numamps_image
                 k == Min(Len(a[1].v), n)
             IN  /\ last'.ok
                 /\ scales' = [i \in 1..n |-> IF i <= k THEN a[1].v[i] ELSE 1]
                 /\ offsets' = [i \in 1..n |-> IF i <= k THEN a[2].v[i] ELSE 0]]_vars

\* C13: on loaded data, set_scaling with non-empty gains and non-empty offsets of
\* different lengths fails and applies neither list.
C13_LengthMismatch ==
    [][\A a \in ScalingCases :
          ( /\ a[1].given /\ a[2].given
            /\ Len(a[1].v) > 0 /\ Len(a[2].v) > 0 /\ Len(a[1].v) # Len(a[2].v)
            /\ is_valid = 1
            /\ SetScaling(a[1], a[2]) ) =>
             /\ ~last'.ok
             /\ \A i \in 1..Len(scales') : scales'[i] = 1 \/ scales' = scales
             /\ \A i \in 1..Len(offsets') : offsets'[i] = 0 \/ offsets' = offsets]_vars

\* C14: no assemble call (whatever its trim, the flip codes and the calibration,
\* and whether it succeeds or fails) and no set_scaling call changes data: every
\* raw pixel keeps the value it had when the data was loaded.
C14_RawDataUntouched ==
    [][last'.op \in {"assemble", "set_scaling"} => data' = data]_vars

\* an assembly ran with a calibration that is not the identity, and data still
\* holds the pixels of the file
C14_Witness ==
    /\ JustAssembled
    /\ ~IdentityCalibration
    /\ \E a \in 1..Len(flipCode) : flipCode[a] # 0
    /\ \A a \in 1..Len(data) : \A i \in 1..Len(data[a]) : data[a][i] = Pixel(a - 1, i - 1)

----------------------------------------------------------------------------
(* the write path *)

\* C15: when _write_fits_file finds the file and overwriting is allowed, os.remove
\* is attempted at most 10 times; when all 10 attempts fail the call reports a
\* failure and neither assembles nor writes.
C15_RemoveGivesUp ==
    [][\A t \in {0, 1, 6}, c \in RemoveCases, g \in Allocated :
          ( /\ Exists(disk, "image.fits")
            /\ (c[1].overwrite # 0 \/ c[1].test_image # 0)
            /\ WriteFitsFile("image.fits", t, c[1], c[2], g) ) =>
             LET rm == RemoveLoop(0, c[2])
             IN  /\ (IF rm.removed THEN rm.loop + 1 ELSE rm.loop) <= MaxRemoveTries
                 /\ ~rm.removed =>
                       /\ ~last'.ok
                       /\ ~last'.ran
                       /\ disk' = disk
                       /\ buffer' = buffer /\ assembled' = assembled]_vars

\* C16: a write_file call with make_lockfile set, on a name whose lock file is a
\* separate file that does not exist yet, creates the lock file only when the
\* write was not refused, did not fail, and produced the image file.
C16_LockAfterWrite ==
    [][\A w \in FitsTargets, c \in FitsCases, g \in Allocated :
          ( /\ c[1].make_lockfile # 0
            /\ LockFileName(w[1]) # w[1]
            /\ ~Exists(disk, LockFileName(w[1]))
            /\ WriteFile(w[1], w[2], c[1], c[2], g)
            /\ Exists(disk', LockFileName(w[1])) ) =>
             /\ ~(w[2] = 0 /\ Exists(disk, w[1]))
             /\ last'.ok
             /\ disk'[w[1]] \in {"fits", "mef", "bin", "asm"}]_vars

\* C17: for every file type (FITS 0, MEF 1, BIN 2, ASM 6), write_file on a name
\* where a file exists, with overwrite = 0 and test_image = 0, reports a failure
\* to its caller and leaves the file as it was.
C17_RefusedWriteReported ==
    [][\A w \in FitsTargets, c \in FitsCases, g \in Allocated :
          ( /\ c[1].overwrite = 0 /\ c[1].test_image = 0 /\ c[1].make_lockfile = 0
            /\ Exists(disk, w[1])
            /\ WriteFile(w[1], w[2], c[1], c[2], g) ) =>
             /\ ~last'.ok
             /\ disk'[w[1]] = disk[w[1]]]_vars

----------------------------------------------------------------------------
(* vertically mirrored amplifiers, the trim sentinel, the source segments *)

\* the bottom and top row margins an assemble(trim) removes
trimRowsBottom(trim) == IF trim = 1 THEN overscanRows ELSE 0

\* C18: in a completed assembly, cell (k, j) of the tile of an amplifier with flip
\* code 2 or 3 comes from raw row ampRows - s - overscanRows - 1 (flip 2) or
\* ampRows - s - underscanRows - 1 (flip 3), where s = underscanRows + k under
\* trim and s = k with zero margins otherwise; the columns start at the left
\* margin, in order for flip 2 and reversed for flip 3.
C18_VerticalFlipRows ==
    JustAssembled =>
        \A p \in 0..(ampGridY - 1), e \in 0..(ampGridX - 1) :
            LET a == readoutOrder[p * ampGridX + e + 1]
                t == last.trim
            IN  flipCode[a] \in {2, 3} =>
                  \A k \in 0..(dstAmpRows(t) - 1), j \in 0..(dstAmpCols(t) - 1) :
                      LET s == trimRowsTop(t) + k
                          row == IF flipCode[a] = 2
                                 THEN ampRows - s - trimRowsBottom(t) - 1
                                 ELSE ampRows - s - trimRowsTop(t) - 1
                          col == trimColsLeft(t)
                                   + (IF flipCode[a] = 3 THEN dstAmpCols(t) - 1 - j ELSE j)
                          o == OriginAt(p * dstAmpRows(t) + k, e * dstAmpCols(t) + j)
                      IN  o.amp = a /\ o.idx = row * ampCols + col + 1

\* a trimmed assembly of a flip-2 and a flip-3 amplifier with a row margin on one
\* side only and more than one column per tile
C18_Witness ==
    /\ JustAssembled /\ last.trim = 1
    /\ underscanRows # overscanRows
    /\ dstAmpCols(1) > 1 /\ dstAmpRows(1) > 1
    /\ \E a, b \in 1..Len(flipCode) : flipCode[a] = 2 /\ flipCode[b] = 3

\* C19: assemble(-1) does not consult the stored preference self.trim: for either
\* value of it, an assemble that runs with trim = -1 (or any trim other than 1)
\* sets asmsize = (size_x, size_y), keeps all margins in a buffer of size_y rows of
\* size_x cells and does not assign trimmed; only trim = 1 selects the trimmed size.
C19_SentinelNeverTrims ==
    [][\A t \in TrimArgs, g \in Allocated :
          (Assemble(t, g) /\ last'.ran) =>
             IF t = 1
             THEN asmsize' = AsmGeometry(1).asm
             ELSE /\ asmsize' = <<size_x, size_y>>
                  /\ trimmed' = trimmed
                  /\ last'.ok => buffer'.shape = <<size_y, size_x>>]_vars

\* an assemble(-1) ran while the stored preference asked for trimming, on an image
\* with margins, and left the untrimmed size
C19_Witness ==
    /\ JustAssembled /\ last.trim = -1
    /\ self_trim = 1
    /\ underscanCols > 0 /\ overscanRows > 0
    /\ asmsize = <<size_x, size_y>>
    /\ trimmed = 0

\* the source rows an assemble(trim) visits: srcLine runs from prescan2 over dstAmpY lines
SourceLines(geo) == { geo.prescan2 + k : k \in 0..(DstAmpY(geo) - 1) }

\* the segment read for (flip, srcLine) lies inside the raw block of the amplifier
SegmentInside(flip, srcLine, geo) ==
    /\ SourceRow(flip, srcLine, ampRows, geo.prescan2, geo.overscan2) \in 0..(ampRows - 1)
    /\ PosX(flip, srcLine, geo) >= 0
    /\ PosX(flip, srcLine, geo) + DstAmpX(geo) <= ampCols * ampRows

\* C20: when the margins fit in the amplifier (ampRows >= underscanRows +
\* overscanRows, ampCols >= underscanCols + overscanCols), for every flip code
\* 0..3 and with or without trim, every source segment an assembly reads lies
\* inside the raw block: its row is in [0, ampRows) and [posX, posX + dstAmpCols)
\* is within [0, ampCols * ampRows).
C20_ReadsInsideBlock ==
    ( /\ last.op = "assemble" /\ last.ran
      /\ AllFlipsKnown
      /\ ampRows >= underscanRows + overscanRows
      /\ ampCols >= underscanCols + overscanCols ) =>
        \A a \in UsedAmps :
            \A srcLine \in SourceLines(AsmGeometry(last.trim)) :
                SegmentInside(flipCode[a], srcLine, AsmGeometry(last.trim))

----------------------------------------------------------------------------
(* coverage of the assembled buffer *)

\* jpg_ext lists every amplifier of the grid once
ReadoutIsPermutation ==
    /\ Len(readoutOrder) = ampGridX * ampGridY
    /\ Len(data) = ampGridX * ampGridY
    /\ { readoutOrder[k] : k \in 1..Len(readoutOrder) } = 1..Len(data)

\* C21: when all flip codes are in {0,1,2,3} and readoutOrder is a permutation of
\* the amplifiers, a successful assemble leaves a buffer of ampGridY*dstAmpRows
\* rows of ampGridX*dstAmpCols cells in which every cell was written exactly once,
\* the cell in columns [i*dstAmpCols, (i+1)*dstAmpCols) of an amplifier row by the
\* i-th amplifier of that row in readoutOrder: no gap, no overlap, no cell left
\* with an uninitialised or stale value.
C21_EveryCellWrittenOnce ==
    (JustAssembled /\ AllFlipsKnown /\ ReadoutIsPermutation) =>
        LET t == last.trim
            rows == ampGridY * dstAmpRows(t)
            cols == ampGridX * dstAmpCols(t)
        IN  /\ buffer.shape = <<rows, cols>>
            /\ Len(buffer.flat) = rows * cols
            /\ Len(origin) = rows * cols
            /\ \A r \in 0..(rows - 1), c \in 0..(cols - 1) :
                  /\ OriginAt(r, c).n = 1
                  /\ OriginAt(r, c).amp = ContributingAmp(r, c, t)
                  /\ BufAt(r, c) \notin Garbage

\* a trimmed assembly of a 2x2 grid whose readoutOrder is not the storage order,
\* with every cell written
C21_Witness ==
    /\ JustAssembled /\ AllFlipsKnown /\ ReadoutIsPermutation
    /\ last.trim = 1
    /\ ampGridX > 1 /\ ampGridY > 1
    /\ \E k \in 1..Len(readoutOrder) : readoutOrder[k] # k
    /\ dstAmpRows(1) > 0 /\ dstAmpRows(1) < ampRows
    /\ \A i \in 1..Len(origin) : origin[i].n = 1

====
